---- MODULE Spec2Model ----
(***************************************************************************)
(* Solar PV analytics: the weather validator (app.py), the loaders, the    *)
(* system builder, the summary metrics and the two orchestrators (the      *)
(* Streamlit dashboard script app.py and the Typer CLI main.py).           *)
(*                                                                         *)
(* A data frame is a record [index, cols]: index is the sequence of        *)
(* timestamps (hours), cols maps each column name present to its sequence  *)
(* of cells. A cell is a record [k, n, d]: k = "num" is the exact rational *)
(* n/d, k = "null" is NaN/None, k = "bad" is a value pd.to_numeric cannot   *)
(* parse (a column holding one has dtype object). The sum of a series is   *)
(* a float sum: each addition rounds to MantissaBits significant bits.     *)
(***************************************************************************)
EXTENDS Integers, Sequences, FiniteSets, TLC

VARIABLES
    df,        \* validate_weather_data: the caller's frame object (mutated in place)
    df0,       \* history: the frame as it was handed to validate_weather_data
    ret,       \* "pending" | "None" | "df" (the same object as the argument) | "raised"
    warnings,  \* the returned list of messages
    pc,        \* "call" | "done"
    response,  \* loaders: the HTTP exchange fetch_live_weather_forecast meets
    fetchOut,  \* what fetch_live_weather_forecast did: None, a frame or an exception
    csvFile,   \* the file load_pvgis_tmy_from_csv is pointed at
    csvTz,     \* its tz argument
    loadOut,   \* what load_pvgis_tmy_from_csv did
    results,   \* summary metrics: the simulation result summarised
    module,    \* selected_module_name at the time of the summary
    summary,   \* the three metrics rendered
    reordered, \* the same result with its rows permuted, and its metrics
    cli,       \* main.py run: its position, inputs, objects and the calls made so far
    session,   \* app.py: st.session_state, and the module its results were simulated with
    widgets,   \* app.py: the sidebar's values
    page       \* app.py: what the last run of the script did and rendered

validateVars == <<df, df0, ret, warnings, pc>>

loaderVars == <<response, fetchOut, csvFile, csvTz, loadOut>>

metricVars == <<results, module, summary, reordered>>

cliVars == <<cli>>

dashVars == <<session, widgets, page>>

vars == <<validateVars, loaderVars, metricVars, cliVars, dashVars>>

Idle == "idle"

\* ------------------------------------------------------------------ bounds
MaxRows == 3
MaxTime == 4
\* the significant bits of a float (53 for float64), scaled down
MantissaBits == 14

\* ------------------------------------------------------------------ cells
Null == [k |-> "null", n |-> 0, d |-> 1]
Bad == [k |-> "bad", n |-> 0, d |-> 1]

RECURSIVE GCD(_, _)
GCD(a, b) == IF b = 0 THEN a ELSE GCD(b, a % b)

Abs(x) == IF x < 0 THEN -x ELSE x

\* the rational n/d (d > 0) in lowest terms
Rat(n, d) ==
    LET g == GCD(Abs(n), d)
    IN  [k |-> "num", n |-> n \div g, d |-> d \div g]

Num(n) == [k |-> "num", n |-> n, d |-> 1]

IsNull(c) == c.k = "null"

\* ------------------------------------------------------------------ app.py
required_columns == <<"ghi", "dni", "dhi", "temp_air", "wind_speed">>

RequiredSet == {required_columns[i] : i \in DOMAIN required_columns}

\* the slip of keeping the first absent column alone
missing_cols_first(f) ==
    LET absent == SelectSeq(required_columns, LAMBDA c : c \notin DOMAIN f.cols)
    IN  IF absent = <<>> THEN <<>> ELSE <<Head(absent)>>

\* [col for col in required_columns if col not in df.columns]
missing_cols(f) ==
    SelectSeq(required_columns, LAMBDA c : c \notin DOMAIN f.cols)

\* Series.isnull().sum() of one column
NullCount(col) == Cardinality({i \in DOMAIN col : IsNull(col[i])})

\* df[required_columns].isnull().sum()
nan_counts(f) == [c \in RequiredSet |-> NullCount(f.cols[c])]

\* df[required_columns].isnull().values.any()
AnyNull(f) == \E c \in RequiredSet : NullCount(f.cols[c]) > 0

\* the slip of counting after the nulls are filled
PositiveCountsAfterRepair(f) ==
    LET filled == [c \in RequiredSet |->
                      [i \in DOMAIN f.cols[c] |->
                          IF IsNull(f.cols[c][i]) THEN Num(0) ELSE f.cols[c][i]]]
        nc == [c \in RequiredSet |-> NullCount(filled[c])]
    IN  [c \in {x \in RequiredSet : nc[x] > 0} |-> nc[c]]

\* nan_counts[nan_counts > 0].to_dict()
PositiveCounts(f) ==
    LET nc == nan_counts(f)
    IN  [c \in {x \in RequiredSet : nc[x] > 0} |-> nc[c]]

\* a column that holds a non-numeric value has dtype object
IsObject(col) == \E i \in DOMAIN col : col[i].k = "bad"

\* np.interp as pandas' interpolate applies it with limit_direction
\* 'forward': a gap is linear in the coordinate x between its nearest valid
\* neighbours, a trailing gap takes the last valid value, a leading gap stays
\* NaN.
InterpolateBy(x, col) ==
    [i \in DOMAIN col |->
        IF ~IsNull(col[i]) THEN col[i]
        ELSE
            LET before == {j \in DOMAIN col : j < i /\ ~IsNull(col[j])}
                after == {j \in DOMAIN col : j > i /\ ~IsNull(col[j])}
            IN  IF before = {} THEN Null
                ELSE
                    LET p == CHOOSE j \in before : \A y \in before : y <= j
                    IN  IF after = {} THEN col[p]
                        ELSE
                            LET q == CHOOSE j \in after : \A y \in after : j <= y
                                span == x[q] - x[p]
                            IN  Rat(col[p].n * span
                                      + (col[q].n - col[p].n) * (x[i] - x[p]),
                                    span)]

\* the slip method='linear': the weight is the row position
InterpolateByPosition(index, col) == InterpolateBy([i \in DOMAIN col |-> i], col)

\* Series.interpolate(method='time') of a float column: the coordinate is
\* the timestamp
InterpolateTime(index, col) == InterpolateBy(index, col)

\* DataFrame.interpolate(method='time') over the required columns: float
\* columns are interpolated, object columns are handed back unchanged
Interpolate(f) ==
    [f EXCEPT !.cols =
        [c \in DOMAIN f.cols |->
            IF IsObject(f.cols[c]) THEN f.cols[c]
            ELSE InterpolateTime(f.index, f.cols[c])]]

\* DataFrame.interpolate raises TypeError when every column is of dtype
\* object in every pandas version, and when any column is from pandas 3 on
\* (raisesOnObject is the pandas build in use)
InterpolateRaises(f, raisesOnObject) ==
    \/ \A c \in RequiredSet : IsObject(f.cols[c])
    \/ raisesOnObject /\ \E c \in RequiredSet : IsObject(f.cols[c])

\* the slip of leaving the fill out
FillNaOmitted(f) == f

\* df[required_columns].fillna(0)
FillNa(f) ==
    [f EXCEPT !.cols =
        [c \in DOMAIN f.cols |->
            [i \in DOMAIN f.cols[c] |->
                IF IsNull(f.cols[c][i]) THEN Num(0) ELSE f.cols[c][i]]]]

\* df[required_columns].apply(pd.to_numeric, errors='coerce')
ToNumeric(f) ==
    [f EXCEPT !.cols =
        [c \in DOMAIN f.cols |->
            [i \in DOMAIN f.cols[c] |->
                IF f.cols[c][i].k = "bad" THEN Null ELSE f.cols[c][i]]]]

CriticalMessage(cols) == [kind |-> "Erro Critico", cols |-> cols, counts |-> <<>>]

NullWarning(counts) == [kind |-> "Aviso", cols |-> <<>>, counts |-> counts]

\* lines 34-35: the repair of the frame
Repair(f) == FillNa(Interpolate(f))

\* line 37: the coercion, applied on every path that returns a frame
Coerce(f) == ToNumeric(f)

\* validate_weather_data(df): the outcome and the frame object afterwards
validate_weather_data(f, raisesOnObject) ==
    IF missing_cols(f) # <<>>
    THEN [ret |-> "None", df |-> f,
          warnings |-> <<CriticalMessage(missing_cols(f))>>]
    ELSE IF AnyNull(f)
    THEN IF InterpolateRaises(f, raisesOnObject)
         THEN [ret |-> "raised", df |-> f, warnings |-> <<>>]
         ELSE [ret |-> "df", df |-> Coerce(Repair(f)),
               warnings |-> <<NullWarning(PositiveCounts(f))>>]
    ELSE [ret |-> "df", df |-> Coerce(f), warnings |-> <<>>]

\* ------------------------------------------------------------------ loaders.py
\* An HTTP exchange is [transport, status, body]; a body is [top, hourly]:
\* top is what response.json() finds ("notjson", "list", "dict"), hasHourly
\* whether it has the key 'hourly', hourly the table under that key, a map
\* from field name to its list of cells (in the time column Num(h) is the
\* timestamp of hour h).
ApiFields ==
    {"temperature_2m", "wind_speed_10m", "shortwave_radiation",
     "direct_normal_irradiance", "diffuse_radiation"}

\* the exception classes the two loaders meet
RequestException == "requests.RequestException"
KeyError == "KeyError"
TypeError == "TypeError"
ValueError == "ValueError"
FileNotFoundError == "FileNotFoundError"
NoException == "none"

\* column_mapping of fetch_live_weather_forecast
FetchColumnMapping(c) ==
    CASE c = "temperature_2m" -> "temp_air"
      [] c = "wind_speed_10m" -> "wind_speed"
      [] c = "shortwave_radiation" -> "ghi"
      [] c = "direct_normal_irradiance" -> "dni"
      [] c = "diffuse_radiation" -> "dhi"
      [] OTHER -> c

\* pd.DataFrame(data) raises ValueError unless all arrays have one length
EqualLengths(t) == \A a, b \in DOMAIN t : Len(t[a]) = Len(t[b])

\* the first exception the try block of fetch_live_weather_forecast meets,
\* statement by statement; oldRequests: a requests release whose
\* response.json() raises a plain ValueError on a body that is not JSON
FetchException(r, oldRequests) ==
    IF r.transport # "ok" THEN RequestException
    ELSE IF r.status >= 400 THEN RequestException
    ELSE IF r.body.top = "notjson"
        THEN (IF oldRequests THEN ValueError ELSE RequestException)
    ELSE IF r.body.top = "list" THEN TypeError
    ELSE IF ~r.body.hasHourly THEN KeyError
    ELSE IF ~EqualLengths(r.body.hourly) THEN ValueError
    ELSE IF "time" \notin DOMAIN r.body.hourly THEN KeyError
    ELSE IF \E i \in DOMAIN r.body.hourly["time"] : r.body.hourly["time"][i].k = "bad"
        THEN ValueError
    ELSE NoException

\* except requests.RequestException / except KeyError
FetchCaught(e) == e \in {RequestException, KeyError}

\* df.set_index('time') and df.rename(columns=column_mapping)
FetchFrame(t) ==
    LET data == DOMAIN t \ {"time"}
    IN  [index |-> [i \in DOMAIN t["time"] |-> t["time"][i].n],
         cols |-> [c \in {FetchColumnMapping(x) : x \in data} |->
                      t[CHOOSE x \in data : FetchColumnMapping(x) = c]]]

NoFrame == [index |-> <<>>, cols |-> <<>>]

Pending == [kind |-> "pending", exc |-> NoException, frame |-> NoFrame]

NotCalled == [kind |-> "idle", exc |-> NoException, frame |-> NoFrame]

\* fetch_live_weather_forecast(latitude, longitude, tz) on exchange r
fetch_live_weather_forecast(r, oldRequests) ==
    LET e == FetchException(r, oldRequests)
    IN  IF e = NoException
        THEN [kind |-> "df", exc |-> NoException, frame |-> FetchFrame(r.body.hourly)]
        ELSE IF FetchCaught(e)
        THEN [kind |-> "None", exc |-> NoException, frame |-> NoFrame]
        ELSE [kind |-> "raised", exc |-> e, frame |-> NoFrame]

\* A timezone-aware timestamp is [wall, off]: the wall-clock hour and the
\* zone's offset from UTC; it denotes the instant wall - off (UTC hours).
Instant(ts) == ts.wall - ts.off

Timezones == {"America/Sao_Paulo", "UTC", "Europe/Berlin"}

\* the zones' offsets (standard time)
UtcOffset(tz) ==
    CASE tz = "America/Sao_Paulo" -> -3
      [] tz = "Europe/Berlin" -> 1
      [] OTHER -> 0

\* pd.to_datetime(index, format="%Y%m%d:%H%M", utc=True)
ToDatetimeUtc(h) == [wall |-> h, off |-> 0]

\* DatetimeIndex.tz_localize(None): the zone is dropped, the wall clock kept
TzLocalizeNone(ts) == ts.wall

\* DatetimeIndex.tz_localize(tz) of a naive wall clock
TzLocalize(wall, tz) == [wall |-> wall, off |-> UtcOffset(tz)]

\* DatetimeIndex.tz_convert(tz): the same instant on the zone's wall clock
TzConvert(ts, tz) == [wall |-> Instant(ts) + UtcOffset(tz), off |-> UtcOffset(tz)]

\* usecols of load_pvgis_tmy_from_csv
PvgisUsecols == {"time(UTC)", "T2m", "G(h)", "Gb(n)", "Gd(h)", "WS10m"}

\* nrows of load_pvgis_tmy_from_csv
PvgisNrows == 8760

\* column_mapping of load_pvgis_tmy_from_csv
PvgisColumnMapping(c) ==
    CASE c = "T2m" -> "temp_air"
      [] c = "G(h)" -> "ghi"
      [] c = "Gb(n)" -> "dni"
      [] c = "Gd(h)" -> "dhi"
      [] c = "WS10m" -> "wind_speed"
      [] OTHER -> c

\* the first exception the try block of load_pvgis_tmy_from_csv meets: the
\* file is [exists, table]; read_csv raises ValueError when a column of
\* usecols is not in the header, to_datetime when a timestamp does not match
\* the format
LoadException(file) ==
    IF ~file.exists THEN FileNotFoundError
    ELSE IF ~(PvgisUsecols \subseteq DOMAIN file.table) THEN ValueError
    ELSE IF \E i \in DOMAIN file.table["time(UTC)"] : file.table["time(UTC)"][i].k = "bad"
        THEN ValueError
    ELSE NoException

\* lines 60-61: the index of the returned frame
PvgisIndex(times, tz) ==
    [i \in DOMAIN times |-> TzLocalize(TzLocalizeNone(ToDatetimeUtc(times[i].n)), tz)]

\* lines 52-72: the frame read, re-indexed and renamed
PvgisFrame(file, tz) ==
    LET n == IF Len(file.table["time(UTC)"]) < PvgisNrows
             THEN Len(file.table["time(UTC)"]) ELSE PvgisNrows
        data == PvgisUsecols \ {"time(UTC)"}
    IN  [index |-> PvgisIndex(SubSeq(file.table["time(UTC)"], 1, n), tz),
         cols |-> [c \in {PvgisColumnMapping(x) : x \in data} |->
                      SubSeq(file.table[CHOOSE x \in data : PvgisColumnMapping(x) = c], 1, n)]]

\* load_pvgis_tmy_from_csv(file_path, tz)
load_pvgis_tmy_from_csv(file, tz) ==
    LET e == LoadException(file)
    IN  IF e = NoException
        THEN [kind |-> "df", exc |-> NoException, frame |-> PvgisFrame(file, tz)]
        ELSE IF e = FileNotFoundError
        THEN [kind |-> "None", exc |-> NoException, frame |-> NoFrame]
        ELSE [kind |-> "raised", exc |-> e, frame |-> NoFrame]

\* ------------------------------------------------------------------ simulation.py
\* pvlib.pvsystem.retrieve_sam('SandiaMod'): the module names
SandiaModules == {"Canadian_Solar_CS6K_275M", "Advent_Solar_AS160___2006_"}

\* pvlib.pvsystem.retrieve_sam('CECInverter'): the inverter names
CECInverters == {"SMA_America__SB5000TL_US_22__240V_", "ABB__MICRO_0_25_I_OUTD_US_208__208V_"}

\* TEMPERATURE_MODEL_PARAMETERS of pvlib.temperature
TemperatureModelParameters(family) ==
    CASE family = "sapm" ->
            {"open_rack_glass_glass", "close_mount_glass_glass",
             "open_rack_glass_polymer", "insulated_back_glass_polymer"}
      [] family = "pvsyst" -> {"freestanding", "insulated"}
      [] OTHER -> {}

\* sandia_modules[name]['Impo'] (A) and ['Vmpo'] (V), rounded
Impo(name) == IF name = "Canadian_Solar_CS6K_275M" THEN 9 ELSE 5

Vmpo(name) == IF name = "Canadian_Solar_CS6K_275M" THEN 31 ELSE 36

NoError == [exc |-> NoException, key |-> ""]

\* the slip of looking names up with a default (.get): no lookup fails
BuildErrorLenient(c) == NoError

\* lines 28-31 of build_pv_system: the three lookups, each a KeyError
\* carrying the key that is absent
BuildError(c) ==
    IF c.module_name \notin SandiaModules
    THEN [exc |-> KeyError, key |-> c.module_name]
    ELSE IF c.inverter_name \notin CECInverters
    THEN [exc |-> KeyError, key |-> c.inverter_name]
    ELSE IF TemperatureModelParameters(c.temperature_model_type) = {}
    THEN [exc |-> KeyError, key |-> c.temperature_model_type]
    ELSE IF c.rack_type \notin TemperatureModelParameters(c.temperature_model_type)
    THEN [exc |-> KeyError, key |-> c.rack_type]
    ELSE NoError

\* lines 33-41 of build_pv_system: the PVSystem built from the configuration
PVSystem(c) ==
    [surface_tilt |-> c.surface_tilt,
     surface_azimuth |-> c.surface_azimuth,
     module_parameters |-> c.module_name,
     inverter_parameters |-> c.inverter_name,
     temperature_model_parameters |-> <<c.temperature_model_type, c.rack_type>>,
     modules_per_string |-> c.modules_per_string,
     strings_per_inverter |-> c.strings_per_inverter]

\* PVSystemConfig(...): the eight fields, validated for their types alone
PVSystemConfig(tilt, azimuth, module_name, inverter_name, family, rack) ==
    [surface_tilt |-> tilt,
     surface_azimuth |-> azimuth,
     modules_per_string |-> 10,
     strings_per_inverter |-> 1,
     module_name |-> module_name,
     inverter_name |-> inverter_name,
     temperature_model_type |-> family,
     rack_type |-> rack]

\* ------------------------------------------------------------------ app.py, summary
\* A simulation result is [ac, attr, hasPoa, poa]: the AC power samples (W),
\* whether it has the attribute total_irrad, whether that frame has the
\* column poa_global, and the column's samples (W/m2).
RECURSIVE Pow2(_)
Pow2(n) == IF n = 0 THEN 1 ELSE 2 * Pow2(n - 1)

\* the number of bits of a natural number
RECURSIVE BitLength(_)
BitLength(x) == IF x = 0 THEN 0 ELSE 1 + BitLength(x \div 2)

\* the spacing of the floats around x
Spacing(x) ==
    IF BitLength(Abs(x)) <= MantissaBits THEN 1
    ELSE Pow2(BitLength(Abs(x)) - MantissaBits)

\* the float nearest to the integer x, ties to the even mantissa
RoundToFloat(x) ==
    LET q == Spacing(x)
        a == Abs(x)
        lo == (a \div q) * q
        r == a - lo
        m == IF 2 * r < q THEN lo
             ELSE IF 2 * r > q THEN lo + q
             ELSE IF (lo \div q) % 2 = 0 THEN lo
             ELSE lo + q
    IN  IF x < 0 THEN -m ELSE m

\* the sum of the first k samples, added one after the other from the first
RECURSIVE SumTo(_, _)
SumTo(s, k) == IF k = 0 THEN 0 ELSE RoundToFloat(SumTo(s, k - 1) + s[k])

\* Series.sum(): 0 for an empty series
Sum(s) == SumTo(s, Len(s))

\* the slip of reading the last sample as the peak
SeqLast(s) == s[Len(s)]

SeqMax(s) == CHOOSE x \in {s[i] : i \in DOMAIN s} : \A i \in DOMAIN s : s[i] <= x

\* a float division: by zero it gives inf or nan
Divide(n, d) ==
    IF d = 0 THEN [k |-> "inf", n |-> n, d |-> 0]
    ELSE IF d < 0 THEN Rat(-n, -d)
    ELSE Rat(n, d)

\* results.ac.sum() / 1000
total_energy_kwh(r) == Divide(Sum(r.ac), 1000)

\* results.ac.max() / 1000 (NaN for an empty series)
peak_power_kw(r) == IF r.ac = <<>> THEN Null ELSE Divide(SeqMax(r.ac), 1000)

\* sandia_modules[name]['Impo'] * sandia_modules[name]['Vmpo'] * 10
nominal_power_dc(name) == Impo(name) * Vmpo(name) * 10

\* the slip of leaving the guard poa_total > 0 out
PerformanceRatioUnguarded(r, name) ==
    IF r.attr /\ r.hasPoa
    THEN [shown |-> "value", divided |-> TRUE,
          divisor |-> Sum(r.poa) * nominal_power_dc(name),
          value |-> Divide(Sum(r.ac) * 100000, Sum(r.poa) * nominal_power_dc(name))]
    ELSE [shown |-> "N/A", divided |-> FALSE, divisor |-> 1, value |-> Null]

\* lines 144-150: the third metric. With E = sum(ac)/1000, P = sum(poa)/1000
\* and N the nominal power, (E / (P * N / 1000)) * 100 is
\* sum(ac) * 100000 / (sum(poa) * N); divided tells whether the division was
\* evaluated and divisor is P * N (scaled by 1000)
PerformanceRatio(r, name) ==
    IF r.attr /\ r.hasPoa
    THEN IF Sum(r.poa) > 0
         THEN [shown |-> "value", divided |-> TRUE,
               divisor |-> Sum(r.poa) * nominal_power_dc(name),
               value |-> Divide(Sum(r.ac) * 100000, Sum(r.poa) * nominal_power_dc(name))]
         ELSE [shown |-> "value", divided |-> FALSE, divisor |-> 1, value |-> Num(0)]
    ELSE [shown |-> "N/A", divided |-> FALSE, divisor |-> 1, value |-> Null]

\* lines 136-150: the three metrics of the summary
Summary(r, name) ==
    [total_energy_kwh |-> total_energy_kwh(r),
     peak_power_kw |-> peak_power_kw(r),
     pr |-> PerformanceRatio(r, name)]

NoSummary ==
    [total_energy_kwh |-> Null, peak_power_kw |-> Null,
     pr |-> [shown |-> "", divided |-> FALSE, divisor |-> 1, value |-> Null]]

\* ------------------------------------------------------------------ inputs
\* strictly increasing timestamps starting at 0
Indexes ==
    {s \in UNION {[1..n -> 0..MaxTime] : n \in 1..MaxRows} :
        /\ s[1] = 0
        /\ \A i \in 1..(Len(s) - 1) : s[i] < s[i + 1]}

Cells == {Null, Bad, Num(100), Num(300)}

\* the other fields' columns: 1 all valid, 2 a leading null, 3 unparseable
PlainColumn(kind, n) ==
    [i \in 1..n |->
        IF kind = 3 THEN Bad
        ELSE IF kind = 2 /\ i = 1 THEN Null
        ELSE Num(100)]

OtherFields == RequiredSet \ {"ghi"}

\* dni takes every kind, the last three fields are absent, valid or unparseable
Kinds ==
    {kinds \in [OtherFields -> 0..3] :
        \A c \in OtherFields \ {"dni"} : kinds[c] # 2}

\* the frame with index idx, ghi column g (<<>>: no ghi column) and the
\* other columns by kind (0: the column is absent)
MakeFrame(idx, g, kinds) ==
    LET present == {c \in OtherFields : kinds[c] # 0}
                       \cup (IF g = <<>> THEN {} ELSE {"ghi"})
    IN  [index |-> idx,
         cols |-> [c \in present |->
                      IF c = "ghi" THEN g ELSE PlainColumn(kinds[c], Len(idx))]]

\* ------------------------------------------------------------------ machine
ValidateIdle ==
    /\ df = Idle
    /\ df0 = Idle
    /\ ret = Idle
    /\ warnings = <<>>
    /\ pc = Idle

NoSystem ==
    [surface_tilt |-> 0, surface_azimuth |-> 0, module_parameters |-> "",
     inverter_parameters |-> "", temperature_model_parameters |-> <<"", "">>,
     modules_per_string |-> 0, strings_per_inverter |-> 0]

NoFailure == [exc |-> NoException, key |-> "", stage |-> ""]

CliIdle ==
    cli = [pc |-> Idle, valid |-> FALSE,
           pv |-> PVSystemConfig(0, 0, "", "", "", ""),
           run_pvgis |-> FALSE, run_clearsky |-> FALSE,
           system |-> NoSystem, calls |-> <<>>, failure |-> NoFailure]

NoResults == [ac |-> <<>>, attr |-> FALSE, hasPoa |-> FALSE, poa |-> <<>>]

FreshPage ==
    [ran |-> FALSE, calls |-> <<>>, errors |-> <<>>, warnings |-> <<>>,
     failure |-> NoFailure, stopped |-> FALSE, shown |-> FALSE,
     summary |-> NoSummary, system |-> NoSystem]

DashIdle ==
    /\ session = [has_results |-> FALSE, simulation_results |-> NoResults,
                  weather_results |-> NoFrame, simulated_module |-> ""]
    /\ widgets = [surface_tilt |-> 0, surface_azimuth |-> 0,
                  selected_module_name |-> "", selected_inverter_name |-> ""]
    /\ page = FreshPage

NoReorder == [results |-> NoResults, summary |-> NoSummary]

MetricsIdle ==
    /\ results = Idle
    /\ module = Idle
    /\ summary = NoSummary
    /\ reordered = NoReorder

LoaderIdle ==
    /\ response = Idle
    /\ fetchOut = NotCalled
    /\ csvFile = Idle
    /\ csvTz = Idle
    /\ loadOut = NotCalled

InitValidate ==
    /\ \E idx \in Indexes :
        \E g \in [1..Len(idx) -> Cells] \cup {<<>>} :
            \E kinds \in Kinds :
                /\ df = MakeFrame(idx, g, kinds)
                /\ df0 = df
    /\ ret = "pending"
    /\ warnings = <<>>
    /\ pc = "call"
    /\ LoaderIdle
    /\ MetricsIdle
    /\ CliIdle
    /\ DashIdle

\* weather_data, warnings = validate_weather_data(raw_weather_data)
Validate ==
    /\ pc = "call"
    /\ \E raisesOnObject \in BOOLEAN :
        LET r == validate_weather_data(df, raisesOnObject)
        IN  /\ df' = r.df
            /\ ret' = r.ret
            /\ warnings' = r.warnings
    /\ pc' = "done"
    /\ UNCHANGED <<df0, loaderVars, metricVars, cliVars, dashVars>>

NextValidate == Validate

SpecValidate == InitValidate /\ [][NextValidate]_vars

\* ---- the loaders
\* the table of n rows with the fields present, of which `short` (if present)
\* lacks its last row; the time column counts the hours and, with badTime,
\* starts with a string that is no timestamp
HourlyTable(present, n, short, badTime) ==
    [f \in present |->
        [i \in 1..(IF f = short THEN n - 1 ELSE n) |->
            IF f = "time" THEN (IF badTime /\ i = 1 THEN Bad ELSE Num(i - 1))
            ELSE Num(100)]]

NoBody(top) == [top |-> top, hasHourly |-> FALSE, hourly |-> <<>>]

Bodies ==
    { NoBody("notjson"), NoBody("list"), NoBody("dict") }
    \cup
    { [top |-> "dict", hasHourly |-> TRUE,
       hourly |-> HourlyTable(present, n, short, badTime)] :
        present \in SUBSET (ApiFields \cup {"time"}),
        n \in 1..MaxRows,
        short \in {"none", "time", "shortwave_radiation"},
        badTime \in BOOLEAN }

Responses ==
    { [transport |-> "error", status |-> 0, body |-> NoBody("notjson")] }
    \cup { [transport |-> "ok", status |-> st, body |-> NoBody("dict")] :
             st \in {404, 500} }
    \cup { [transport |-> "ok", status |-> 200, body |-> b] : b \in Bodies }

\* UTC hours of the rows of a file
FileHours == {0, 1, 12}

\* a PVGIS file: the header's columns and its rows
PvgisTable(columns, hours, badTime) ==
    [c \in columns |->
        [i \in DOMAIN hours |->
            IF c = "time(UTC)" THEN (IF badTime /\ i = 1 THEN Bad ELSE Num(hours[i]))
            ELSE Num(100 * i)]]

Files ==
    { [exists |-> FALSE, table |-> <<>>] }
    \cup
    { [exists |-> TRUE, table |-> PvgisTable(columns, hours, badTime)] :
        columns \in { PvgisUsecols, PvgisUsecols \cup {"RH"}, PvgisUsecols \ {"Gb(n)"} },
        hours \in {h \in UNION {[1..n -> FileHours] : n \in 1..MaxRows} :
                      \A i \in 1..(Len(h) - 1) : h[i] < h[i + 1]},
        badTime \in BOOLEAN }

\* one call of one of the two loaders
InitLoaders ==
    /\ \/ /\ response \in Responses
          /\ fetchOut = Pending
          /\ csvFile = Idle
          /\ csvTz = Idle
          /\ loadOut = NotCalled
       \/ /\ response = Idle
          /\ fetchOut = NotCalled
          /\ csvFile \in Files
          /\ csvTz \in Timezones
          /\ loadOut = Pending
    /\ ValidateIdle
    /\ MetricsIdle
    /\ CliIdle
    /\ DashIdle

\* raw_weather_data = fetch_live_weather_forecast(lat, lon, tz)
Fetch ==
    /\ fetchOut = Pending
    /\ \E oldRequests \in BOOLEAN :
        fetchOut' = fetch_live_weather_forecast(response, oldRequests)
    /\ UNCHANGED <<response, csvFile, csvTz, loadOut, validateVars, metricVars, cliVars, dashVars>>

\* weather_pvgis = load_pvgis_tmy_from_csv(path, tz)
Load ==
    /\ loadOut = Pending
    /\ loadOut' = load_pvgis_tmy_from_csv(csvFile, csvTz)
    /\ UNCHANGED <<response, fetchOut, csvFile, csvTz, validateVars, metricVars, cliVars, dashVars>>

NextLoaders == Fetch \/ Load

SpecLoaders == InitLoaders /\ [][NextLoaders]_vars

\* ---- the summary metrics
AcSamples == {0, 1000, 2500}

PoaSamples == {0, 500}

\* the simulation results of n rows
SimulationResults(n) ==
    { [ac |-> ac, attr |-> FALSE, hasPoa |-> FALSE, poa |-> <<>>] : ac \in [1..n -> AcSamples] }
    \cup
    { [ac |-> ac, attr |-> TRUE, hasPoa |-> FALSE, poa |-> <<>>] : ac \in [1..n -> AcSamples] }
    \cup
    { [ac |-> ac, attr |-> TRUE, hasPoa |-> TRUE, poa |-> poa] :
        ac \in [1..n -> AcSamples], poa \in [1..n -> PoaSamples] }

InitMetrics ==
    /\ results \in UNION {SimulationResults(n) : n \in 1..MaxRows}
    /\ module \in SandiaModules
    /\ summary = NoSummary
    /\ reordered = NoReorder
    /\ ValidateIdle
    /\ LoaderIdle
    /\ CliIdle
    /\ DashIdle

\* lines 129-150: the summary of st.session_state['simulation_results']
Summarize ==
    /\ summary = NoSummary
    /\ summary' = Summary(results, module)
    /\ UNCHANGED <<results, module, reordered, validateVars, loaderVars, cliVars, dashVars>>

NextMetrics == Summarize

SpecMetrics == InitMetrics /\ [][NextMetrics]_vars

\* ---- the summary of a series and of the same rows in another order
\* AC power samples near the precision of the floats
FloatSamples == {0, 1, Pow2(MantissaBits) - 2, Pow2(MantissaBits) - 1}

\* a result of n rows with no total_irrad (the ratio is not computed)
SeriesResults(n) ==
    { [ac |-> ac, attr |-> FALSE, hasPoa |-> FALSE, poa |-> <<>>] :
        ac \in [1..n -> FloatSamples] }

RowOrders(n) == {p \in [1..n -> 1..n] : \A i, j \in 1..n : p[i] = p[j] => i = j}

\* the rows of a result taken in the order p
Permute(r, p) ==
    [r EXCEPT !.ac = [i \in 1..Len(r.ac) |-> r.ac[p[i]]],
              !.poa = [i \in 1..Len(r.poa) |-> r.poa[p[i]]]]

InitSeries ==
    /\ results \in UNION {SeriesResults(n) : n \in 1..MaxRows}
    /\ module = "Canadian_Solar_CS6K_275M"
    /\ summary = NoSummary
    /\ reordered = NoReorder
    /\ ValidateIdle
    /\ LoaderIdle
    /\ CliIdle
    /\ DashIdle

\* the same result with its rows in another order, summarised by the same
\* lines 136-150
Reorder ==
    /\ summary # NoSummary
    /\ reordered = NoReorder
    /\ \E p \in RowOrders(Len(results.ac)) :
        reordered' = [results |-> Permute(results, p),
                      summary |-> Summary(Permute(results, p), module)]
    /\ UNCHANGED <<results, module, summary, validateVars, loaderVars, cliVars, dashVars>>

NextSeries == Summarize \/ Reorder

SpecSeries == InitSeries /\ [][NextSeries]_vars

\* ---- main.py: the command run
\* the values a configuration file may give (pydantic checks the types alone)
ConfigTilts == {-10, 0, 20, 90, 120}

ConfigAzimuths == {-5, 0, 180, 360, 400}

ConfigModules == SandiaModules \cup {"Unknown_Module"}

ConfigInverters == {"SMA_America__SB5000TL_US_22__240V_", "Unknown_Inverter"}

ConfigRacks == {"open_rack_glass_glass", "unknown_rack"}

SimulationError == "SimulationError"

\* the files the path of the configuration may lead to when it is read
CliFiles ==
    { [exists |-> FALSE, table |-> <<>>],
      [exists |-> TRUE, table |-> PvgisTable(PvgisUsecols, <<0, 1, 12>>, FALSE)],
      [exists |-> TRUE, table |-> PvgisTable(PvgisUsecols \ {"Gb(n)"}, <<0, 1>>, FALSE)] }

InitCli ==
    /\ \E valid \in BOOLEAN, tilt \in ConfigTilts, azimuth \in ConfigAzimuths,
          module_name \in ConfigModules, inverter_name \in ConfigInverters,
          rack \in ConfigRacks, run_pvgis \in BOOLEAN, run_clearsky \in BOOLEAN :
        cli = [pc |-> "start", valid |-> valid,
               pv |-> PVSystemConfig(tilt, azimuth, module_name, inverter_name, "sapm", rack),
               run_pvgis |-> run_pvgis, run_clearsky |-> run_clearsky,
               system |-> NoSystem, calls |-> <<>>, failure |-> NoFailure]
    /\ csvFile \in CliFiles
    /\ csvTz = "America/Sao_Paulo"
    /\ loadOut = NotCalled
    /\ response = Idle
    /\ fetchOut = NotCalled
    /\ ValidateIdle
    /\ MetricsIdle
    /\ DashIdle

CliFrame == <<response, fetchOut, csvFile, csvTz, validateVars, metricVars, dashVars>>

\* lines 69-79: config = load_and_validate_config(config_path)
CliLoadConfig ==
    /\ cli.pc = "start"
    /\ cli' = [cli EXCEPT !.pc = IF cli.valid THEN "build" ELSE "exit1"]
    /\ UNCHANGED <<loadOut, CliFrame>>

\* line 80: pv_system = build_pv_system(config.pv_system), outside any try
CliBuild ==
    /\ cli.pc = "build"
    /\ LET e == BuildError(cli.pv)
       IN  cli' = IF e.exc # NoException
                  THEN [cli EXCEPT !.pc = "crashed",
                                   !.calls = Append(@, "build_pv_system"),
                                   !.failure = [exc |-> e.exc, key |-> e.key,
                                                stage |-> "build_pv_system"]]
                  ELSE [cli EXCEPT !.pc = "pvgis",
                                   !.calls = Append(@, "build_pv_system"),
                                   !.system = PVSystem(cli.pv)]
    /\ UNCHANGED <<loadOut, CliFrame>>

\* lines 82-88: weather_pvgis = load_pvgis_tmy_from_csv(...) if run_pvgis
CliLoadPvgis ==
    /\ cli.pc = "pvgis"
    /\ IF ~cli.run_pvgis
       THEN /\ cli' = [cli EXCEPT !.pc = "clearsky"]
            /\ UNCHANGED loadOut
       ELSE /\ loadOut' = load_pvgis_tmy_from_csv(csvFile, csvTz)
            /\ cli' = [cli EXCEPT
                  !.calls = Append(@, "load_pvgis_tmy_from_csv"),
                  !.pc = CASE loadOut'.kind = "None" -> "clearsky"
                           [] loadOut'.kind = "raised" -> "crashed"
                           [] OTHER -> "simulate",
                  !.failure = IF loadOut'.kind = "raised"
                              THEN [exc |-> loadOut'.exc, key |-> "",
                                    stage |-> "load_pvgis_tmy_from_csv"]
                              ELSE @]
    /\ UNCHANGED CliFrame

\* line 89: mc_pvgis = run_simulation(pv_system, location, weather_pvgis)
CliSimulatePvgis ==
    /\ cli.pc = "simulate"
    /\ \E ok \in BOOLEAN :
        cli' = IF ok
               THEN [cli EXCEPT !.pc = "report",
                                !.calls = Append(@, "run_simulation TMY PVGIS")]
               ELSE [cli EXCEPT !.pc = "crashed",
                                !.calls = Append(@, "run_simulation TMY PVGIS"),
                                !.failure = [exc |-> SimulationError, key |-> "",
                                             stage |-> "run_simulation"]]
    /\ UNCHANGED <<loadOut, CliFrame>>

\* lines 90-91: fig = generate_report_figure(mc_pvgis, "TMY PVGIS")
CliReportPvgis ==
    /\ cli.pc = "report"
    /\ cli' = [cli EXCEPT !.pc = "clearsky",
                          !.calls = Append(@, "generate_report_figure TMY PVGIS")]
    /\ UNCHANGED <<loadOut, CliFrame>>

\* lines 93-104: the clear-sky scenario
CliClearsky ==
    /\ cli.pc = "clearsky"
    /\ \/ /\ ~cli.run_clearsky
          /\ cli' = [cli EXCEPT !.pc = "done"]
       \/ /\ cli.run_clearsky
          /\ \E ok \in BOOLEAN :
              cli' = IF ok
                     THEN [cli EXCEPT !.pc = "done",
                              !.calls = @ \o <<"run_simulation Clear-Sky Model",
                                               "generate_report_figure Clear-Sky Model">>]
                     ELSE [cli EXCEPT !.pc = "crashed",
                              !.calls = Append(@, "run_simulation Clear-Sky Model"),
                              !.failure = [exc |-> SimulationError, key |-> "",
                                           stage |-> "run_simulation"]]
    /\ UNCHANGED <<loadOut, CliFrame>>

NextCli ==
    \/ CliLoadConfig
    \/ CliBuild
    \/ CliLoadPvgis
    \/ CliSimulatePvgis
    \/ CliReportPvgis
    \/ CliClearsky

SpecCli == InitCli /\ [][NextCli]_vars

\* ---- app.py: the dashboard script, run once per interaction
\* the sliders' and select boxes' values (lines 66-76)
SliderTilts == {0, 20, 90}

SliderAzimuths == {0, 180, 360}

AllApiFields == ApiFields \cup {"time"}

\* the exchanges the dashboard meets: the transport fails, the body is a
\* list, the forecast is complete, lacks direct_normal_irradiance, or has a
\* null in shortwave_radiation
DashResponses ==
    { [transport |-> "error", status |-> 0, body |-> NoBody("notjson")],
      [transport |-> "ok", status |-> 200, body |-> NoBody("list")],
      [transport |-> "ok", status |-> 200,
       body |-> [top |-> "dict", hasHourly |-> TRUE,
                 hourly |-> HourlyTable(AllApiFields, 2, "none", FALSE)]],
      [transport |-> "ok", status |-> 200,
       body |-> [top |-> "dict", hasHourly |-> TRUE,
                 hourly |-> HourlyTable(AllApiFields \ {"direct_normal_irradiance"},
                                        2, "none", FALSE)]],
      [transport |-> "ok", status |-> 200,
       body |-> [top |-> "dict", hasHourly |-> TRUE,
                 hourly |-> [HourlyTable(AllApiFields, 2, "none", FALSE)
                                EXCEPT !["shortwave_radiation"][1] = Null]]] }

\* what mc.run_model(weather_data) may do: raise, leave no results, or leave
\* one of these results
DashResults ==
    {r \in SimulationResults(2) :
        \/ (r.ac = <<0, 0>> /\ r.poa = <<0, 0>>)
        \/ (r.ac = <<1000, 2500>> /\ r.poa = <<500, 500>>)}

SimOutcomes ==
    { [kind |-> "raised", results |-> NoResults],
      [kind |-> "none", results |-> NoResults] }
    \cup { [kind |-> "results", results |-> r] : r \in DashResults }

\* lines 129-150: the results block, reached only if the script was not stopped
Display(sess, w, pg) ==
    IF sess.has_results
    THEN [pg EXCEPT !.shown = TRUE,
                    !.summary = Summary(sess.simulation_results, w.selected_module_name)]
    ELSE pg

\* the slip of showing the error without st.stop()
ErrorWithoutStop(pg, error) == [pg EXCEPT !.errors = Append(@, error)]

\* st.error(...) followed by st.stop(): the script ends there
Stopped(pg, error) == [pg EXCEPT !.stopped = TRUE, !.errors = Append(@, error)]

\* the rest of the script after the run block: st.stop() or an exception
\* that escaped has ended the run before it
Render(sess, w, pg) == IF pg.stopped THEN pg ELSE Display(sess, w, pg)

Called(pg, fn) == [pg EXCEPT !.calls = Append(@, fn)]

\* lines 104-126: the simulation block, given the validated weather
SimulationBlock(sess, w, pg, weather, sim) ==
    LET config == PVSystemConfig(w.surface_tilt, w.surface_azimuth,
                                 w.selected_module_name, w.selected_inverter_name,
                                 "sapm", "open_rack_glass_glass")
        e == BuildError(config)
        built == Called(pg, "build_pv_system")
        ran == Called(built, "run_model")
    IN  IF e.exc # NoException
        THEN [session |-> sess,
              page |-> [Stopped(built, "simulation") EXCEPT
                           !.failure = [exc |-> e.exc, key |-> e.key,
                                        stage |-> "build_pv_system"]]]
        ELSE IF sim.kind = "raised"
        THEN [session |-> sess,
              page |-> [Stopped(ran, "simulation") EXCEPT
                           !.failure = [exc |-> SimulationError, key |-> "",
                                        stage |-> "run_model"],
                           !.system = PVSystem(config)]]
        ELSE IF sim.kind = "none"
        THEN [session |-> sess,
              page |-> [Stopped(ran, "no results") EXCEPT !.system = PVSystem(config)]]
        ELSE [session |-> [has_results |-> TRUE,
                           simulation_results |-> sim.results,
                           weather_results |-> weather,
                           simulated_module |-> config.module_name],
              page |-> [ran EXCEPT !.system = PVSystem(config)]]

\* lines 91-94: the run ends at the fetch, which returned None or raised
FetchFailed(sess, pg, fetched) ==
    LET p1 == Called(pg, "fetch_live_weather_forecast")
    IN  IF fetched.kind = "raised"
        THEN [session |-> sess,
              page |-> [p1 EXCEPT !.stopped = TRUE,
                           !.failure = [exc |-> fetched.exc, key |-> "",
                                        stage |-> "fetch_live_weather_forecast"]]]
        ELSE [session |-> sess, page |-> Stopped(p1, "fetch")]

\* lines 96-100: the run ends at the validation, which returned None or raised
ValidationFailed(sess, pg, v) ==
    LET p2 == Called(Called(pg, "fetch_live_weather_forecast"), "validate_weather_data")
    IN  IF v.ret = "raised"
        THEN [session |-> sess,
              page |-> [p2 EXCEPT !.stopped = TRUE,
                           !.failure = [exc |-> TypeError, key |-> "",
                                        stage |-> "validate_weather_data"]]]
        ELSE [session |-> sess, page |-> Stopped(p2, "validation")]

\* lines 101-126: the warnings shown, then the simulation block
Validated(sess, w, pg, v, sim) ==
    LET p2 == Called(Called(pg, "fetch_live_weather_forecast"), "validate_weather_data")
    IN  SimulationBlock(sess, w, [p2 EXCEPT !.warnings = v.warnings], v.df, sim)

\* the state after the first run of the script: the keys of session_state
\* initialised (lines 49-54), the widgets at their defaults
InitDash ==
    /\ session = [has_results |-> FALSE, simulation_results |-> NoResults,
                  weather_results |-> NoFrame, simulated_module |-> ""]
    /\ widgets = [surface_tilt |-> 20, surface_azimuth |-> 180,
                  selected_module_name |-> "Canadian_Solar_CS6K_275M",
                  selected_inverter_name |-> "SMA_America__SB5000TL_US_22__240V_"]
    /\ page = FreshPage
    /\ ValidateIdle
    /\ LoaderIdle
    /\ MetricsIdle
    /\ CliIdle

DashFrame == <<validateVars, loaderVars, metricVars, cliVars>>

DashOpen == widgets.selected_module_name # ""

\* the end of a run of the script: the session and the page it leaves
Finish(out) ==
    /\ session' = out.session
    /\ page' = Render(out.session, widgets, out.page)

\* the user presses 'Executar Simulacao de Previsao': the script runs with
\* run_button true (lines 89-150)
DashPress ==
    /\ DashOpen
    /\ \E r \in DashResponses, oldRequests \in BOOLEAN :
        LET fetched == fetch_live_weather_forecast(r, oldRequests)
            pressed == [FreshPage EXCEPT !.ran = TRUE]
        IN  IF fetched.kind # "df"
            THEN Finish(FetchFailed(session, pressed, fetched))
            ELSE \E raisesOnObject \in BOOLEAN :
                LET v == validate_weather_data(fetched.frame, raisesOnObject)
                IN  IF v.ret # "df"
                    THEN Finish(ValidationFailed(session, pressed, v))
                    ELSE \E sim \in SimOutcomes :
                            Finish(Validated(session, widgets, pressed, v, sim))
    /\ UNCHANGED <<widgets, DashFrame>>

\* the user moves a slider or picks a component: the script runs with
\* run_button false
DashChange ==
    /\ DashOpen
    /\ \E tilt \in SliderTilts, azimuth \in SliderAzimuths,
          module_name \in SandiaModules, inverter_name \in CECInverters :
        /\ widgets' = [surface_tilt |-> tilt, surface_azimuth |-> azimuth,
                       selected_module_name |-> module_name,
                       selected_inverter_name |-> inverter_name]
        /\ Cardinality({f \in DOMAIN widgets : widgets'[f] # widgets[f]}) = 1
        /\ page' = Render(session, widgets', FreshPage)
    /\ UNCHANGED <<session, DashFrame>>

NextDash == DashPress \/ DashChange

SpecDash == InitDash /\ [][NextDash]_vars

\* ---- the two orchestrators
InitPipeline == InitCli \/ InitDash

NextPipeline == NextCli \/ NextDash

SpecPipeline == InitPipeline /\ [][NextPipeline]_vars

\* ------------------------------------------------------------------ claims
Complete(f) == RequiredSet \subseteq DOMAIN f.cols

\* the cells of column c are numbers or nulls (a float column)
NumericColumn(f, c) == \A i \in DOMAIN f.cols[c] : f.cols[c][i].k # "bad"

\* a weather series of the data model: every required cell a number or a null
NumericSeries(f) == \A c \in RequiredSet : NumericColumn(f, c)

NullsIn(f) ==
    {<<c, i>> \in RequiredSet \X (1..Len(f.index)) : f.cols[c][i].k = "null"}

SeqRange(s) == {s[i] : i \in DOMAIN s}

\* C1: a series lacking one or more required columns yields None and exactly
\* one message, which names exactly the columns lacking, and the frame handed
\* in keeps its cells.
C1_MissingFieldsFatal ==
    (pc = "done" /\ ~Complete(df0)) =>
        /\ ret = "None"
        /\ Len(warnings) = 1
        /\ warnings[1].kind = "Erro Critico"
        /\ SeqRange(warnings[1].cols) = RequiredSet \ DOMAIN df0.cols
        /\ Len(warnings[1].cols) = Cardinality(RequiredSet \ DOMAIN df0.cols)
        /\ df = df0

C1_Witness ==
    /\ pc = "done"
    /\ ret = "None"
    /\ Cardinality(RequiredSet \ DOMAIN df0.cols) = 2
    /\ "ghi" \in DOMAIN df0.cols
    /\ \E i \in DOMAIN df0.cols["ghi"] : df0.cols["ghi"][i].k = "null"

\* C2: for a complete weather series (cells numbers or nulls) with a null, a
\* frame is returned with no null left and a warning whose counts are, field
\* by field, the nulls of the frame as handed in; whenever a frame with nulls
\* is returned the warning carries those counts; with no null in the input
\* there is no warning.
C2_NullsRepairedAndCounted ==
    (pc = "done" /\ Complete(df0)) =>
        /\ NullsIn(df0) = {} => warnings = <<>>
        /\ (NullsIn(df0) # {} /\ ret = "df") =>
            /\ Len(warnings) >= 1
            /\ \A c \in RequiredSet :
                LET n0 == Cardinality({i \in 1..Len(df0.index) : df0.cols[c][i].k = "null"})
                IN  IF n0 = 0 THEN c \notin DOMAIN warnings[1].counts
                    ELSE c \in DOMAIN warnings[1].counts /\ warnings[1].counts[c] = n0
        /\ (NullsIn(df0) # {} /\ NumericSeries(df0)) =>
            /\ ret = "df"
            /\ NullsIn(df) = {}

C2_Witness ==
    /\ pc = "done"
    /\ ret = "df"
    /\ NumericSeries(df0)
    /\ Len(df0.index) = 3
    /\ Cardinality({i \in 1..3 : df0.cols["ghi"][i].k = "null"}) = 2
    /\ df0.cols["dni"][1].k = "null"
    /\ DOMAIN warnings[1].counts = {"ghi", "dni"}

\* the nearest number before row i and after row i of column c, if any
NumbersBefore(f, c, i) == {j \in 1..(i - 1) : f.cols[c][j].k = "num"}

NumbersAfter(f, c, i) == {j \in (i + 1)..Len(f.index) : f.cols[c][j].k = "num"}

Max(S) == CHOOSE x \in S : \A y \in S : y <= x

Min(S) == CHOOSE x \in S : \A y \in S : x <= y

\* C3: in a returned frame, a null of a float column with a number on both
\* sides holds the value on the straight line, in elapsed time, through its
\* nearest number before (row p) and after (row q):
\* v * (tq - tp) = vp * (tq - t) + vq * (t - tp), so it lies between the two;
\* hourly 100, null, 300 gives 200, and 100 at 0 h, null at 1 h, 300 at 4 h
\* gives 150.
C3_TimeWeightedInterpolation ==
    (pc = "done" /\ ret = "df") =>
        /\ \A c \in RequiredSet : \A i \in 1..Len(df0.index) :
            ( /\ NumericColumn(df0, c)
              /\ df0.cols[c][i].k = "null"
              /\ NumbersBefore(df0, c, i) # {}
              /\ NumbersAfter(df0, c, i) # {} ) =>
                LET p == Max(NumbersBefore(df0, c, i))
                    q == Min(NumbersAfter(df0, c, i))
                    t == df0.index
                    vp == df0.cols[c][p].n
                    vq == df0.cols[c][q].n
                    v == df.cols[c][i]
                IN  /\ v.k = "num"
                    /\ v.n * (t[q] - t[p]) = v.d * (vp * (t[q] - t[i]) + vq * (t[i] - t[p]))
                    /\ v.n >= v.d * Min({vp, vq})
                    /\ v.n <= v.d * Max({vp, vq})
        /\ (df0.index = <<0, 1, 2>> /\ df0.cols["ghi"] = <<Num(100), Null, Num(300)>>)
            => df.cols["ghi"][2] = Num(200)
        /\ (df0.index = <<0, 1, 4>> /\ df0.cols["ghi"] = <<Num(100), Null, Num(300)>>)
            => df.cols["ghi"][2] = Num(150)

C3_Witness ==
    /\ pc = "done"
    /\ ret = "df"
    /\ df0.index = <<0, 1, 4>>
    /\ df0.cols["ghi"] = <<Num(100), Null, Num(300)>>
    /\ df.cols["ghi"] = <<Num(100), Num(150), Num(300)>>

C5_ReturnedSeriesHasNoNull ==
    (pc = "done" /\ Complete(df0) /\ ret = "df") => NullsIn(df) = {}

\* the exchange is no well-formed forecast: a transport error, an error
\* status, or a body that is not the expected table of the six fields
AcquisitionFailure(r) ==
    \/ r.transport # "ok"
    \/ r.status < 200
    \/ r.status > 299
    \/ r.body.top # "dict"
    \/ ~r.body.hasHourly
    \/ DOMAIN r.body.hourly # ApiFields \cup {"time"}
    \/ \E a, b \in DOMAIN r.body.hourly : Len(r.body.hourly[a]) # Len(r.body.hourly[b])
    \/ \E i \in DOMAIN r.body.hourly["time"] : r.body.hourly["time"][i].k # "num"

\* C8 as stated: no exception escapes a loader and every acquisition failure
\* ends in None: a failed exchange for fetch_live_weather_forecast, a missing
\* file for load_pvgis_tmy_from_csv.
C8_AcquisitionFailureIsNoData ==
    /\ (fetchOut.kind \notin {"idle", "pending"} /\ AcquisitionFailure(response))
        => fetchOut.kind = "None"
    /\ (loadOut.kind \notin {"idle", "pending"} /\ ~csvFile.exists)
        => loadOut.kind = "None"

\* C9 as stated: a well-formed file gives one row per data row, the five
\* canonical columns, and an index in the target zone whose every timestamp
\* is the instant the file names in UTC.
C9_TimestampsKeepTheUtcInstant ==
    loadOut.kind = "df" =>
        LET times == csvFile.table["time(UTC)"]
            out == loadOut.frame
        IN  /\ Len(out.index) = Len(times)
            /\ DOMAIN out.cols = RequiredSet
            /\ \A c \in RequiredSet : Len(out.cols[c]) = Len(times)
            /\ \A i \in DOMAIN times :
                /\ out.index[i].off = UtcOffset(csvTz)
                /\ Instant(out.index[i]) = times[i].n

\* C6 as stated: the performance ratio is reported as not available whenever
\* the plane-of-array irradiance is absent or sums to zero, and the summary
\* never divides by zero.
C6_RatioNotAvailableWithoutIrradiance ==
    summary # NoSummary =>
        /\ (~results.attr \/ ~results.hasPoa \/ Sum(results.poa) = 0)
            => (summary.pr.shown = "N/A" /\ ~summary.pr.divided)
        /\ summary.pr.divided => summary.pr.divisor # 0

\* C6 amended: without plane-of-array irradiance the ratio is reported as not
\* available; with an irradiance sum of zero it is reported as the number 0;
\* in both cases nothing is divided, and when the ratio is computed the
\* divisor is not zero (the nominal power of a catalog module is positive).
\* With an all-zero AC series total energy and peak power are 0.
C6_RatioGuarded ==
    summary # NoSummary =>
        /\ (~results.attr \/ ~results.hasPoa)
            => (summary.pr.shown = "N/A" /\ ~summary.pr.divided)
        /\ (results.attr /\ results.hasPoa /\ Sum(results.poa) = 0)
            => (summary.pr.shown = "value" /\ summary.pr.value = Num(0)
                /\ ~summary.pr.divided)
        /\ summary.pr.divided => summary.pr.divisor # 0
        /\ summary.pr.value.k # "inf"
        /\ (\A i \in DOMAIN results.ac : results.ac[i] = 0)
            => (summary.total_energy_kwh = Num(0) /\ summary.peak_power_kw = Num(0))

C6_Witness ==
    /\ summary # NoSummary
    /\ results.attr
    /\ results.hasPoa
    /\ Sum(results.poa) = 0
    /\ Len(results.ac) = 2
    /\ Sum(results.ac) = 0
    /\ summary.pr.value = Num(0)

\* the configuration names a module or an inverter the catalog does not hold
UnknownComponent(c) ==
    c.module_name \notin SandiaModules \/ c.inverter_name \notin CECInverters

Simulations ==
    {"run_simulation TMY PVGIS", "run_simulation Clear-Sky Model", "run_model"}

\* C7: a module or inverter name absent from the catalog makes build_pv_system
\* fail with a KeyError that carries the absent name, a failure other than a
\* simulation failure; the command run ends there with no system and no call
\* after build_pv_system, and a dashboard run whose build failed has not
\* called run_model (a run that did call it has built a system from catalog
\* names).
C7_UnknownComponentStopsBeforeSimulation ==
    /\ (cli.pc \notin {Idle, "start", "build", "exit1"} /\ UnknownComponent(cli.pv))
        => /\ cli.pc = "crashed"
           /\ cli.failure.exc = KeyError
           /\ cli.failure.exc # SimulationError
           /\ cli.failure.stage = "build_pv_system"
           /\ cli.failure.key \in
                ({cli.pv.module_name} \ SandiaModules)
                    \cup ({cli.pv.inverter_name} \ CECInverters)
           /\ cli.system = NoSystem
           /\ cli.calls = <<"build_pv_system">>
    /\ page.failure.stage = "build_pv_system"
        => (SeqRange(page.calls) \cap Simulations = {} /\ page.system = NoSystem)
    /\ "run_model" \in SeqRange(page.calls)
        => /\ page.system # NoSystem
           /\ page.system.module_parameters \in SandiaModules
           /\ page.system.inverter_parameters \in CECInverters

C7_Witness ==
    /\ cli.pc = "crashed"
    /\ cli.pv.module_name \in SandiaModules
    /\ cli.pv.inverter_name = "Unknown_Inverter"
    /\ cli.failure.key = "Unknown_Inverter"
    /\ cli.run_pvgis
    /\ cli.run_clearsky

\* the tilt or the azimuth of the configuration is out of range
OutOfRange(c) ==
    \/ c.surface_tilt < 0
    \/ c.surface_tilt > 90
    \/ c.surface_azimuth < 0
    \/ c.surface_azimuth > 360

\* C10 as stated: a configuration with a tilt outside 0..90 or an azimuth
\* outside 0..360 yields no system from build_pv_system and no simulation
\* runs with it.
C10_OutOfRangeYieldsNoSystem ==
    (cli.pc # Idle /\ OutOfRange(cli.pv))
        => /\ cli.system = NoSystem
           /\ SeqRange(cli.calls) \cap Simulations = {}

\* the samples of a series added exactly
RECURSIVE ExactSum(_)
ExactSum(s) == IF s = <<>> THEN 0 ELSE Head(s) + ExactSum(Tail(s))

\* the rows have been summarised in both orders
Reordered == summary # NoSummary /\ reordered # NoReorder

\* C11 as stated: total energy is sum(ac)/1000, peak power is max(ac)/1000,
\* and neither changes when the rows of the series are permuted.
C11_SummaryIsOrderIndependent ==
    Reordered =>
        /\ summary.total_energy_kwh = Divide(Sum(results.ac), 1000)
        /\ summary.peak_power_kw = Divide(SeqMax(results.ac), 1000)
        /\ reordered.summary.total_energy_kwh = summary.total_energy_kwh
        /\ reordered.summary.peak_power_kw = summary.peak_power_kw

\* C11 amended: total energy is the float sum of the samples divided by 1000
\* and peak power the largest sample divided by 1000; a permutation of the
\* rows never changes the peak; it leaves the total unchanged when the exact
\* sum fits the mantissa (no addition rounds), and otherwise the two float
\* sums differ by at most one spacing of the floats at the exact sum per
\* addition.
C11_OrderIndependentUpToRounding ==
    Reordered =>
        LET n == Len(results.ac)
            here == Sum(results.ac)
            there == Sum(reordered.results.ac)
            exact == ExactSum(results.ac)
        IN  /\ summary.total_energy_kwh = Divide(here, 1000)
            /\ summary.peak_power_kw = Divide(SeqMax(results.ac), 1000)
            /\ reordered.summary.total_energy_kwh = Divide(there, 1000)
            /\ reordered.summary.peak_power_kw = summary.peak_power_kw
            /\ BitLength(exact) <= MantissaBits
                => reordered.summary.total_energy_kwh = summary.total_energy_kwh
            /\ Abs(here - there) <= (n - 1) * Spacing(exact)
            /\ Abs(here - exact) <= (n - 1) * Spacing(exact)

C11_Witness ==
    /\ Reordered
    /\ Len(results.ac) = 3
    /\ reordered.results.ac # results.ac
    /\ reordered.summary.peak_power_kw = summary.peak_power_kw
    /\ reordered.summary.total_energy_kwh # summary.total_energy_kwh

\* C12 as stated: validate_weather_data leaves the caller's series as it
\* was, on the success path and on the fatal path, and the returned series
\* has the timestamps and the row count of the input.
C12_CallerSeriesIsReadOnly ==
    pc = "done" =>
        /\ df = df0
        /\ ret = "df" =>
            /\ df.index = df0.index
            /\ \A c \in DOMAIN df.cols : Len(df.cols[c]) = Len(df0.index)

\* a run of the dashboard met a fatal error: a message was shown with
\* st.error or an exception ended the script
Fatal(pg) == pg.errors # <<>> \/ pg.failure # NoFailure

\* C13: a dashboard run in which the fetch returns None, the validation
\* returns no series or the build or the simulation raises shows one error,
\* calls no later stage and renders no summary, whatever results the session
\* keeps from an earlier run; a run whose validation only warned goes on to
\* the simulation and, unless that fails, renders the summary.
C13_FatalErrorsStopTheRun ==
    /\ Fatal(page) => (page.ran /\ page.stopped /\ Len(page.errors) <= 1)
    /\ page.stopped => (~page.shown /\ page.summary = NoSummary)
    /\ page.errors = <<"fetch">>
        => page.calls = <<"fetch_live_weather_forecast">>
    /\ page.errors = <<"validation">>
        => page.calls = <<"fetch_live_weather_forecast", "validate_weather_data">>
    /\ page.failure.stage = "build_pv_system"
        => (page.errors = <<"simulation">> /\ "run_model" \notin SeqRange(page.calls))
    /\ page.failure.stage = "run_model" => page.errors = <<"simulation">>
    /\ page.warnings # <<>> => "build_pv_system" \in SeqRange(page.calls)
    /\ (page.warnings # <<>> /\ ~Fatal(page)) => (~page.stopped /\ page.shown)

C13_Witness ==
    /\ page.ran
    /\ page.errors = <<"validation">>
    /\ page.stopped
    /\ session.has_results
    /\ ~page.shown

\* C14 as stated: whenever a summary is displayed, the module whose nameplate
\* power enters the performance ratio is the module the displayed result was
\* simulated with.
C14_RatioUsesTheModuleOfTheResult ==
    page.shown =>
        /\ widgets.selected_module_name = session.simulated_module
        /\ page.summary.pr
            = PerformanceRatio(session.simulation_results, session.simulated_module)

====
